---- MODULE Spec2Model ----
(***************************************************************************)
(* Lifecycle model of src/src/index.ts: the process-wide handles (scene,  *)
(* camera, renderer, controls, model, mixer, resizeObserver), the public  *)
(* operations init / modelPathstate / clearCurrentModel / allDestroyed    *)
(* and the three kinds of callback the module registers with its host:    *)
(* the GLTFLoader onLoad callback, the requestAnimationFrame callback and *)
(* the ResizeObserver callback.  JavaScript runs every operation and      *)
(* every callback to completion, so each is one atomic action.            *)
(*                                                                         *)
(* Objects are identified by the call that created them: the k-th init    *)
(* creates scene k, camera k, renderer k (whose canvas is canvas k),      *)
(* controls k and observer k; the n-th loadModel delivers model n.        *)
(* Reading a property of an undefined handle is a TypeError: the          *)
(* operation stops there and keeps the assignments it already made.       *)
(***************************************************************************)
EXTENDS Integers, FiniteSets, Sequences, TLC

VARIABLES
    scene,              \* handle: id of the current scene, or Undefined
    camera,             \* handle: [id, position, aspect]
    renderer,           \* handle: [id, size]
    controls,           \* handle: [id, target]
    model,              \* handle: id of the model last delivered by a load
    mixer,              \* handle: [root, running], root = model it is bound to
    resizeObserver,     \* handle: id of the observer last created
    sceneChildren,      \* scene id -> objects attached to that scene object
    containerChildren,  \* container -> canvases attached as its children
    observed,           \* <<observer, container>> pairs currently observed
    inflight,           \* loads started whose onLoad has not run yet
    rafPending,         \* number of animate callbacks scheduled and not yet run
    nInits,             \* number of init calls so far
    nLoads,             \* number of loadModel calls so far
    tornDown,           \* scenes that allDestroyed has discarded
    last                \* the step just taken and its inputs

vars == <<scene, camera, renderer, controls, model, mixer, resizeObserver,
          sceneChildren, containerChildren, observed, inflight, rafPending,
          nInits, nLoads, tornDown, last>>

-----------------------------------------------------------------------------
(* Bounds of the model *)

MaxInits == 2
MaxLoads == 2

-----------------------------------------------------------------------------
(* Values *)

Undefined == 0

Origin == <<0, 0, 0>>
NoSize == <<0, 0>>

UndefinedCamera == [id |-> Undefined, position |-> Origin, aspect |-> NoSize]
UndefinedRenderer == [id |-> Undefined, size |-> NoSize]
UndefinedControls == [id |-> Undefined, target |-> Origin]
UndefinedMixer == [root |-> Undefined, running |-> FALSE]

\* new THREE.PerspectiveCamera(75, 5/6, 0.1, 1000): an aspect is kept as the
\* fraction <<numerator, denominator>> in lowest terms
InitialAspect == <<5, 6>>
\* a canvas element is 300 x 150 until setSize is called
DefaultCanvasSize == <<300, 150>>

\* the mount elements a caller passes: one HTMLElement and one element that
\* has appendChild but is no HTMLElement (an SVG element)
Containers == {"divA", "svgB"}
IsHTMLElement(c) == c = "divA"

Paths == {"a.glb", "b.glb"}
\* the new path a caller passes (empty, or a path) and the old path it passes
\* (the same path, or another)
NewPathArgs == {"", "b.glb"}
OldPathArgs == Paths
CameraPositions == {<<0, 0, 5>>, <<1, 2, 3>>}
\* the configurations a caller passes: two, differing in path and camera
PropsSet == {[modelPath |-> "a.glb", cameraPosition |-> <<0, 0, 5>>],
             [modelPath |-> "b.glb", cameraPosition |-> <<1, 2, 3>>]}

\* what the user's orbit / pan gestures leave in the camera and the controller
UserPosition == <<3, 0, 4>>
UserTarget == <<1, 0, 0>>

\* (clientWidth, clientHeight) a container can have when it is measured
ClientSizes == {<<8, 6>>, <<6, 0>>}

SceneIds == 1..MaxInits
NoLoad == [id |-> 0, path |-> "", startScene |-> 0]

ModelObject(m) == <<"model", m>>
\* a scene given the ambient light only
LightsAmbientOnly(s) == {<<"ambientLight", s>>}
Lights(s) == {<<"ambientLight", s>>, <<"directionalLight", s>>}
ModelsIn(children) == {o \in children : o[1] = "model"}

NoCall == [step |-> "none", pub |-> "none", threw |-> FALSE,
           container |-> "none", load |-> NoLoad, size |-> NoSize,
           rescheduled |-> FALSE, delta |-> 0]

\* the record of a public operation
Call(step, threw) == [NoCall EXCEPT !.step = step, !.pub = step, !.threw = threw]
\* the record of a callback: the last public operation stays on record
Callback(step, threw) == [NoCall EXCEPT !.step = step, !.pub = last.pub, !.threw = threw]

-----------------------------------------------------------------------------
(* Helpers: the private functions of the module, as functions of the state *)

\* initResizeObserver without the disconnect of the previous observer
initResizeObserverNoDisconnect(ro, obs, new, containerElement) ==
    IF IsHTMLElement(containerElement)
    THEN obs \cup {<<new, containerElement>>}
    ELSE obs

\* initResizeObserver: the observations left after the previous observer is
\* disconnected and the new one observes the container
initResizeObserver(ro, obs, new, containerElement) ==
    LET kept == IF ro # Undefined THEN {p \in obs : p[1] # ro} ELSE obs
    IN  IF IsHTMLElement(containerElement)
        THEN kept \cup {<<new, containerElement>>}
        ELSE kept

\* loadModel: loader.load(props.modelPath, onLoad) starts a load and returns
loadModel(loads, n, props, sc) ==
    loads \cup {[id |-> n + 1, path |-> props.modelPath, startScene |-> sc]}

\* the guard of animate
animateGuard(ctl, sc, cam) ==
    ctl.id # Undefined /\ sc # Undefined /\ cam.id # Undefined

\* mixer.update(0.016): the step of one frame, in milliseconds
FixedStep == 16

\* the step animate advances the mixer by: none without a mixer
mixerUpdate(mx) == IF mx.root # Undefined THEN FixedStep ELSE 0

\* animate rescheduling itself whatever the handles are
animateAlways(pending, ctl, sc, cam) == pending + 1

\* animate: the number of scheduled callbacks after one run of animate
animate(pending, ctl, sc, cam) ==
    IF animateGuard(ctl, sc, cam) THEN pending + 1 ELSE pending

\* clearCurrentModel without its "if (model)" guard
clearCurrentModelOnUnguarded(sc, m, mx, children) ==
    LET stopped == IF mx.root # Undefined
                   THEN [mx EXCEPT !.running = FALSE]
                   ELSE mx
    IN  IF sc = Undefined
        THEN [threw |-> TRUE, mixer |-> stopped, children |-> children]
        ELSE [threw |-> FALSE, mixer |-> stopped,
              children |-> [children EXCEPT ![sc] = @ \ {ModelObject(m)}]]

\* clearCurrentModel on a given state: what it leaves in mixer and in the
\* scenes' children, and whether it raised a TypeError (scene.remove on an
\* undefined scene)
clearCurrentModelOn(sc, m, mx, children) ==
    IF m = Undefined
    THEN [threw |-> FALSE, mixer |-> mx, children |-> children]
    ELSE LET stopped == IF mx.root # Undefined
                        THEN [mx EXCEPT !.running = FALSE]
                        ELSE mx
         IN  IF sc = Undefined
             THEN [threw |-> TRUE, mixer |-> stopped, children |-> children]
             ELSE [threw |-> FALSE, mixer |-> stopped,
                   children |-> [children EXCEPT ![sc] = @ \ {ModelObject(m)}]]

RECURSIVE Gcd(_, _)
Gcd(a, b) == IF b = 0 THEN a ELSE Gcd(b, a % b)

\* the values a division by zero produces
Infinity == <<1, 0>>
NaN == <<0, 0>>

\* width / height as the number the division yields: the fraction in lowest
\* terms, Infinity for a positive width over 0, NaN for 0 over 0
Divide(width, height) ==
    IF height = 0
    THEN IF width = 0 THEN NaN ELSE Infinity
    ELSE <<width \div Gcd(width, height), height \div Gcd(width, height)>>

\* updateRendererSize: the renderer and camera after the container is measured
updateRendererSize(rd, cam, size) ==
    IF rd.id = Undefined \/ cam.id = Undefined
    THEN [renderer |-> rd, camera |-> cam]
    ELSE [renderer |-> [rd EXCEPT !.size = size],
          camera |-> [cam EXCEPT !.aspect = Divide(size[1], size[2])]]

-----------------------------------------------------------------------------
(* Initial state: the module has been loaded, nothing was called *)

Init ==
    /\ scene = Undefined
    /\ camera = UndefinedCamera
    /\ renderer = UndefinedRenderer
    /\ controls = UndefinedControls
    /\ model = Undefined
    /\ mixer = UndefinedMixer
    /\ resizeObserver = Undefined
    /\ sceneChildren = [s \in SceneIds |-> {}]
    /\ containerChildren = [c \in Containers |-> {}]
    /\ observed = {}
    /\ inflight = {}
    /\ rafPending = 0
    /\ nInits = 0
    /\ nLoads = 0
    /\ tornDown = {}
    /\ last = NoCall

-----------------------------------------------------------------------------
(* Public operations *)

\* init taking the canvas of the renderer it replaces out of its container
initReplacesCanvas(props, container) ==
    /\ nInits < MaxInits
    /\ nLoads < MaxLoads
    /\ LET new == nInits + 1
           cam == [id |-> new, position |-> props.cameraPosition,
                   aspect |-> InitialAspect]
           ctl == [id |-> new, target |-> Origin]
       IN  /\ scene' = new
           /\ camera' = cam
           /\ renderer' = [id |-> new, size |-> DefaultCanvasSize]
           /\ containerChildren' =
                  [c \in Containers |->
                      (containerChildren[c] \ {renderer.id})
                          \cup (IF c = container THEN {new} ELSE {})]
           /\ controls' = ctl
           /\ sceneChildren' = [sceneChildren EXCEPT ![new] = Lights(new)]
           /\ observed' = initResizeObserver(resizeObserver, observed, new, container)
           /\ resizeObserver' = new
           /\ inflight' = loadModel(inflight, nLoads, props, new)
           /\ nLoads' = nLoads + 1
           /\ rafPending' = animate(rafPending, ctl, new, cam)
           /\ nInits' = new
    /\ last' = [Call("init", FALSE) EXCEPT !.container = container]
    /\ UNCHANGED <<model, mixer, tornDown>>

init(props, container) ==
    /\ nInits < MaxInits
    /\ nLoads < MaxLoads
    /\ LET new == nInits + 1
           cam == [id |-> new, position |-> props.cameraPosition,
                   aspect |-> InitialAspect]
           ctl == [id |-> new, target |-> Origin]
       IN  /\ scene' = new
           /\ camera' = cam
           /\ renderer' = [id |-> new, size |-> DefaultCanvasSize]
           /\ containerChildren' =
                  [containerChildren EXCEPT ![container] = @ \cup {new}]
           /\ controls' = ctl
           /\ sceneChildren' = [sceneChildren EXCEPT ![new] = Lights(new)]
           /\ observed' = initResizeObserver(resizeObserver, observed, new, container)
           /\ resizeObserver' = new
           /\ inflight' = loadModel(inflight, nLoads, props, new)
           /\ nLoads' = nLoads + 1
           /\ rafPending' = animate(rafPending, ctl, new, cam)
           /\ nInits' = new
    /\ last' = [Call("init", FALSE) EXCEPT !.container = container]
    /\ UNCHANGED <<model, mixer, tornDown>>

clearCurrentModel ==
    LET r == clearCurrentModelOn(scene, model, mixer, sceneChildren)
    IN  /\ mixer' = r.mixer
        /\ sceneChildren' = r.children
        /\ last' = Call("clearCurrentModel", r.threw)
        /\ UNCHANGED <<scene, camera, renderer, controls, model, resizeObserver,
                       containerChildren, observed, inflight, rafPending,
                       nInits, nLoads, tornDown>>

\* modelPathstate without the comparison of newPath with oldPath
modelPathstateIgnoresOldPath(newPath, oldPath, props) ==
    /\ last' = Call("modelPathstate", FALSE)
    /\ IF newPath # "" /\ scene # Undefined
       THEN /\ nLoads < MaxLoads
            /\ LET r == clearCurrentModelOn(scene, model, mixer, sceneChildren)
               IN  /\ mixer' = r.mixer
                   /\ sceneChildren' = r.children
            /\ inflight' = loadModel(inflight, nLoads, props, scene)
            /\ nLoads' = nLoads + 1
            /\ IF camera.id # Undefined /\ controls.id # Undefined
               THEN /\ camera' = [camera EXCEPT !.position = props.cameraPosition]
                    /\ controls' = [controls EXCEPT !.target = Origin]
               ELSE UNCHANGED <<camera, controls>>
            /\ UNCHANGED <<scene, renderer, model, resizeObserver,
                           containerChildren, observed, rafPending, nInits,
                           tornDown>>
       ELSE UNCHANGED <<scene, camera, renderer, controls, model, mixer,
                        resizeObserver, sceneChildren, containerChildren,
                        observed, inflight, rafPending, nInits, nLoads,
                        tornDown>>

\* modelPathstate loading the path it is given instead of props.modelPath
modelPathstateLoadsNewPath(newPath, oldPath, props) ==
    /\ last' = Call("modelPathstate", FALSE)
    /\ IF newPath # "" /\ newPath # oldPath /\ scene # Undefined
       THEN /\ nLoads < MaxLoads
            /\ LET r == clearCurrentModelOn(scene, model, mixer, sceneChildren)
               IN  /\ mixer' = r.mixer
                   /\ sceneChildren' = r.children
            /\ inflight' = loadModel(inflight, nLoads,
                                     [props EXCEPT !.modelPath = newPath], scene)
            /\ nLoads' = nLoads + 1
            /\ IF camera.id # Undefined /\ controls.id # Undefined
               THEN /\ camera' = [camera EXCEPT !.position = props.cameraPosition]
                    /\ controls' = [controls EXCEPT !.target = Origin]
               ELSE UNCHANGED <<camera, controls>>
            /\ UNCHANGED <<scene, renderer, model, resizeObserver,
                           containerChildren, observed, rafPending, nInits,
                           tornDown>>
       ELSE UNCHANGED <<scene, camera, renderer, controls, model, mixer,
                        resizeObserver, sceneChildren, containerChildren,
                        observed, inflight, rafPending, nInits, nLoads,
                        tornDown>>

modelPathstate(newPath, oldPath, props) ==
    /\ last' = Call("modelPathstate", FALSE)
    /\ IF newPath # "" /\ newPath # oldPath /\ scene # Undefined
       THEN /\ nLoads < MaxLoads
            /\ LET r == clearCurrentModelOn(scene, model, mixer, sceneChildren)
               IN  /\ mixer' = r.mixer
                   /\ sceneChildren' = r.children
            /\ inflight' = loadModel(inflight, nLoads, props, scene)
            /\ nLoads' = nLoads + 1
            /\ IF camera.id # Undefined /\ controls.id # Undefined
               THEN /\ camera' = [camera EXCEPT !.position = props.cameraPosition]
                    /\ controls' = [controls EXCEPT !.target = Origin]
               ELSE UNCHANGED <<camera, controls>>
            /\ UNCHANGED <<scene, renderer, model, resizeObserver,
                           containerChildren, observed, rafPending, nInits,
                           tornDown>>
       ELSE UNCHANGED <<scene, camera, renderer, controls, model, mixer,
                        resizeObserver, sceneChildren, containerChildren,
                        observed, inflight, rafPending, nInits, nLoads,
                        tornDown>>

\* allDestroyed forgetting to clear the camera handle
allDestroyedKeepsCamera ==
    LET disconnected == IF resizeObserver # Undefined
                        THEN {p \in observed : p[1] # resizeObserver}
                        ELSE observed
        r == clearCurrentModelOn(scene, model, mixer, sceneChildren)
    IN  /\ observed' = disconnected
        /\ last' = Call("allDestroyed", r.threw)
        /\ IF r.threw
           THEN /\ mixer' = r.mixer
                /\ sceneChildren' = r.children
                /\ UNCHANGED <<scene, camera, renderer, controls, model,
                               containerChildren, tornDown>>
           ELSE /\ sceneChildren' = r.children
                /\ containerChildren' =
                       IF renderer.id # Undefined
                       THEN [c \in Containers |-> containerChildren[c] \ {renderer.id}]
                       ELSE containerChildren
                /\ tornDown' = IF scene # Undefined
                               THEN tornDown \cup {scene}
                               ELSE tornDown
                /\ scene' = Undefined
                /\ camera' = camera
                /\ renderer' = UndefinedRenderer
                /\ controls' = UndefinedControls
                /\ model' = Undefined
                /\ mixer' = UndefinedMixer
        /\ UNCHANGED <<resizeObserver, inflight, rafPending, nInits, nLoads>>

allDestroyed ==
    LET disconnected == IF resizeObserver # Undefined
                        THEN {p \in observed : p[1] # resizeObserver}
                        ELSE observed
        r == clearCurrentModelOn(scene, model, mixer, sceneChildren)
    IN  /\ observed' = disconnected
        /\ last' = Call("allDestroyed", r.threw)
        /\ IF r.threw
           THEN /\ mixer' = r.mixer
                /\ sceneChildren' = r.children
                /\ UNCHANGED <<scene, camera, renderer, controls, model,
                               containerChildren, tornDown>>
           ELSE /\ sceneChildren' = r.children
                /\ containerChildren' =
                       IF renderer.id # Undefined
                       THEN [c \in Containers |-> containerChildren[c] \ {renderer.id}]
                       ELSE containerChildren
                /\ tornDown' = IF scene # Undefined
                               THEN tornDown \cup {scene}
                               ELSE tornDown
                /\ scene' = Undefined
                /\ camera' = UndefinedCamera
                /\ renderer' = UndefinedRenderer
                /\ controls' = UndefinedControls
                /\ model' = Undefined
                /\ mixer' = UndefinedMixer
        /\ UNCHANGED <<resizeObserver, inflight, rafPending, nInits, nLoads>>

-----------------------------------------------------------------------------
(* Callbacks *)

\* the onLoad callback attaching to the scene that was current when the load
\* was started (a scene captured by the closure) instead of the scene handle
loadCallbackCapturedScene(l) ==
    /\ l \in inflight
    /\ inflight' = inflight \ {l}
    /\ model' = l.id
    /\ last' = [Callback("loadCallback", FALSE) EXCEPT !.load = l]
    /\ sceneChildren' =
           [sceneChildren EXCEPT ![l.startScene] = @ \cup {ModelObject(l.id)}]
    /\ mixer' = [root |-> l.id, running |-> TRUE]
    /\ UNCHANGED <<scene, camera, renderer, controls, resizeObserver,
                   containerChildren, observed, rafPending, nInits, nLoads,
                   tornDown>>

\* the onLoad callback keeping a mixer that already exists
loadCallbackReusesMixer(l) ==
    /\ l \in inflight
    /\ inflight' = inflight \ {l}
    /\ model' = l.id
    /\ IF scene = Undefined
       THEN /\ last' = [Callback("loadCallback", TRUE) EXCEPT !.load = l]
            /\ UNCHANGED <<mixer, sceneChildren>>
       ELSE /\ last' = [Callback("loadCallback", FALSE) EXCEPT !.load = l]
            /\ sceneChildren' =
                   [sceneChildren EXCEPT ![scene] = @ \cup {ModelObject(l.id)}]
            /\ mixer' = IF mixer.root # Undefined
                        THEN [mixer EXCEPT !.running = TRUE]
                        ELSE [root |-> l.id, running |-> TRUE]
    /\ UNCHANGED <<scene, camera, renderer, controls, resizeObserver,
                   containerChildren, observed, rafPending, nInits, nLoads,
                   tornDown>>

\* the onLoad callback of loadModel, run when load l has been decoded
loadCallback(l) ==
    /\ l \in inflight
    /\ inflight' = inflight \ {l}
    /\ model' = l.id
    /\ IF scene = Undefined
       THEN /\ last' = [Callback("loadCallback", TRUE) EXCEPT !.load = l]
            /\ UNCHANGED <<mixer, sceneChildren>>
       ELSE /\ last' = [Callback("loadCallback", FALSE) EXCEPT !.load = l]
            /\ sceneChildren' =
                   [sceneChildren EXCEPT ![scene] = @ \cup {ModelObject(l.id)}]
            /\ mixer' = [root |-> l.id, running |-> TRUE]
    /\ UNCHANGED <<scene, camera, renderer, controls, resizeObserver,
                   containerChildren, observed, rafPending, nInits, nLoads,
                   tornDown>>

\* a load that fails: loader.load is given no onError, nothing runs
loadFailed(l) ==
    /\ l \in inflight
    /\ inflight' = inflight \ {l}
    /\ last' = [Callback("loadFailed", FALSE) EXCEPT !.load = l]
    /\ UNCHANGED <<scene, camera, renderer, controls, model, mixer,
                   resizeObserver, sceneChildren, containerChildren, observed,
                   rafPending, nInits, nLoads, tornDown>>

\* a scheduled animate callback runs
animateFrame ==
    /\ rafPending > 0
    /\ rafPending' = animate(rafPending - 1, controls, scene, camera)
    /\ last' = [Callback("animateFrame",
                         animateGuard(controls, scene, camera)
                             /\ renderer.id = Undefined)
                    EXCEPT !.rescheduled = animateGuard(controls, scene, camera),
                           !.delta = IF animateGuard(controls, scene, camera)
                                     THEN mixerUpdate(mixer)
                                     ELSE 0]
    /\ UNCHANGED <<scene, camera, renderer, controls, model, mixer,
                   resizeObserver, sceneChildren, containerChildren, observed,
                   inflight, nInits, nLoads, tornDown>>

\* the ResizeObserver callback of observer o, which closes over its container
resizeCallback(o, containerElement, size) ==
    /\ <<o, containerElement>> \in observed
    /\ LET r == updateRendererSize(renderer, camera, size)
       IN  /\ renderer' = r.renderer
           /\ camera' = r.camera
    /\ last' = [Callback("resizeCallback", FALSE) EXCEPT
                    !.container = containerElement, !.size = size]
    /\ UNCHANGED <<scene, controls, model, mixer, resizeObserver, sceneChildren,
                   containerChildren, observed, inflight, rafPending,
                   nInits, nLoads, tornDown>>

\* the user orbits and pans through the OrbitControls bound to the camera
userOrbit ==
    /\ controls.id # Undefined
    /\ camera.id # Undefined
    /\ camera' = [camera EXCEPT !.position = UserPosition]
    /\ controls' = [controls EXCEPT !.target = UserTarget]
    /\ last' = Callback("userOrbit", FALSE)
    /\ UNCHANGED <<scene, renderer, model, mixer, resizeObserver, sceneChildren,
                   containerChildren, observed, inflight, rafPending,
                   nInits, nLoads, tornDown>>

-----------------------------------------------------------------------------

Next ==
    \/ \E props \in PropsSet, container \in Containers : init(props, container)
    \/ \E newPath \in NewPathArgs, oldPath \in OldPathArgs, props \in PropsSet :
           modelPathstate(newPath, oldPath, props)
    \/ clearCurrentModel
    \/ allDestroyed
    \/ \E l \in inflight : loadCallback(l)
    \/ \E l \in inflight : loadFailed(l)
    \/ animateFrame
    \/ \E p \in observed, size \in ClientSizes : resizeCallback(p[1], p[2], size)
    \/ userOrbit

Spec == Init /\ [][Next]_vars

-----------------------------------------------------------------------------
(* Properties *)

PublicOperations == {"init", "modelPathstate", "clearCurrentModel", "allDestroyed"}

AttachedModels == IF scene = Undefined THEN {} ELSE ModelsIn(sceneChildren[scene])

AttachedCanvases == UNION {containerChildren[c] : c \in Containers}

CoreDefined ==
    /\ scene # Undefined
    /\ camera.id # Undefined
    /\ renderer.id # Undefined
    /\ controls.id # Undefined

CoreUndefined ==
    /\ scene = Undefined
    /\ camera = UndefinedCamera
    /\ renderer = UndefinedRenderer
    /\ controls = UndefinedControls

\* C1: at most one loaded model is attached to the current scene, and when a
\* load completion has just attached its model, that model is the only one
\* attached (the one before it was detached first).
C1_AtMostOneModelAttached ==
    /\ Cardinality(AttachedModels) <= 1
    /\ (last.step = "loadCallback" /\ ~last.threw)
           => AttachedModels = {ModelObject(last.load.id)}

\* C2: once allDestroyed was the last public operation called, no canvas made
\* by any earlier init is still a child of its container, and an animate
\* callback that runs does not schedule another one.
C2_NothingLeftAfterAllDestroyed ==
    last.pub = "allDestroyed"
        => /\ AttachedCanvases = {}
           /\ (last.step = "animateFrame" => ~last.rescheduled)

\* C3: right after init returns, the container it was given has exactly one
\* canvas as its child.
C3_ExactlyOneSurfaceAfterInit ==
    last.step = "init" => Cardinality(containerChildren[last.container]) = 1

C7_AllHandlesCleared ==
    (last.step = "allDestroyed" /\ ~last.threw)
        => /\ CoreUndefined
           /\ model = Undefined
           /\ mixer = UndefinedMixer
           /\ resizeObserver = Undefined

C9_NoPublicOperationThrows ==
    last.step \in PublicOperations => ~last.threw

\* C10: at most one resize observer is connected; it is the one of the most
\* recent init, whose scene and canvas are still current; after allDestroyed
\* none is connected.
C10_AtMostOneObserverConnected ==
    /\ Cardinality(observed) <= 1
    /\ \A p \in observed :
           /\ p[1] = resizeObserver
           /\ p[1] = nInits
           /\ scene = p[1]
           /\ renderer.id = p[1]
           /\ p[1] \in containerChildren[p[2]]
    /\ last.pub = "allDestroyed" => observed = {}

\* C10 witness: a second init has replaced the observer of the first.
C10_Witness ==
    /\ last.step = "init"
    /\ nInits = 2
    /\ 1 \notin tornDown
    /\ observed = {<<2, "divA">>}
    /\ 1 \in containerChildren["divA"]

\* a is the ratio of the width to the height of size
IsRatioOf(a, size) ==
    /\ a[2] # 0
    /\ size[2] # 0
    /\ a[1] * size[2] = a[2] * size[1]

\* C11: after a resize event processed while renderer and camera are defined,
\* the renderer has the container's (clientWidth, clientHeight) and the camera
\* aspect is the ratio clientWidth / clientHeight; until the first resize
\* event after init the aspect is 5/6.
C11_ResizeSetsSizeAndAspect ==
    /\ (last.step = "resizeCallback" /\ renderer.id # Undefined
            /\ camera.id # Undefined)
           => /\ renderer.size = last.size
              /\ IsRatioOf(camera.aspect, last.size)
    /\ (camera.id # Undefined /\ renderer.size = DefaultCanvasSize)
           => camera.aspect = <<5, 6>>

\* the canvases of renderers that a later init replaced with no allDestroyed
\* in between
LeakedCanvases == {k \in 1..nInits : k < nInits /\ k \notin tornDown}

\* C12: a canvas whose renderer was replaced by a second init without an
\* allDestroyed in between stays attached to its container in every later
\* state; allDestroyed removes the canvas of the most recent init only.
C12_SupersededSurfaceStaysAttached ==
    /\ AttachedCanvases = {k \in 1..nInits : k \notin tornDown}
    /\ LeakedCanvases \subseteq AttachedCanvases
    /\ (last.step = "allDestroyed" /\ ~last.threw)
           => /\ renderer.id = Undefined
              /\ AttachedCanvases = LeakedCanvases

\* C12 witness: allDestroyed after two inits: the second canvas is gone, the
\* first is still a child of its container.
C12_Witness ==
    /\ last.pub = "allDestroyed"
    /\ nInits = 2
    /\ tornDown = {2}
    /\ AttachedCanvases = {1}

C14_AtMostOneFramePending ==
    rafPending <= 1

\* C15: an animate callback that finds controls, scene or camera undefined
\* changes nothing and schedules no further callback; one that finds all three
\* defined schedules exactly one, advances the mixer, if there is one, by the
\* fixed step, and renders with a renderer that is defined.
C15_TickGuardedAndFixedStep ==
    [][last'.step = "animateFrame"
          => /\ UNCHANGED <<scene, camera, renderer, controls, model, mixer,
                            resizeObserver, sceneChildren, containerChildren,
                            observed, inflight>>
             /\ rafPending > 0
             /\ (controls.id = Undefined \/ scene = Undefined
                     \/ camera.id = Undefined)
                    => /\ rafPending' = rafPending - 1
                       /\ ~last'.rescheduled
                       /\ last'.delta = 0
                       /\ ~last'.threw
             /\ (controls.id # Undefined /\ scene # Undefined
                     /\ camera.id # Undefined)
                    => /\ rafPending' = (rafPending - 1) + 1
                       /\ last'.rescheduled
                       /\ last'.delta = (IF mixer.root # Undefined THEN 16 ELSE 0)
                       /\ renderer.id # Undefined
                       /\ ~last'.threw]_vars

\* C15 witness: after allDestroyed a pending callback has run, found the
\* handles undefined and scheduled nothing; no callback is pending.
C15_Witness ==
    /\ last.step = "animateFrame"
    /\ last.pub = "allDestroyed"
    /\ ~last.rescheduled
    /\ scene = Undefined
    /\ rafPending = 0

\* C16: a modelPathstate call with newPath empty, or equal to oldPath, or
\* with no scene defined changes no handle, no scene content, no camera
\* position, no controller target, and starts no load.
C16_ModelPathstateNoOp ==
    [][\A newPath \in NewPathArgs, oldPath \in OldPathArgs, props \in PropsSet :
          (/\ last'.step = "modelPathstate"
           /\ (newPath = "" \/ newPath = oldPath \/ scene = Undefined)
           /\ modelPathstate(newPath, oldPath, props))
          => /\ UNCHANGED <<scene, camera, renderer, controls, model, mixer,
                            resizeObserver, sceneChildren, containerChildren,
                            observed, inflight, rafPending, nLoads>>
             /\ ~last'.threw]_vars

\* C16 witness: modelPathstate has returned with a scene defined and a model
\* attached, and the only load ever started is the one init started.
C16_Witness ==
    /\ last.step = "modelPathstate"
    /\ scene # Undefined
    /\ nLoads = 1
    /\ inflight = {}
    /\ AttachedModels = {ModelObject(1)}
    /\ mixer = [root |-> 1, running |-> TRUE]

\* every load started has delivered its model, and no scene was torn down
AllLoadsDelivered ==
    /\ nLoads >= 1
    /\ inflight = {}
    /\ tornDown = {}
    /\ \A n \in 1..nLoads :
           \E s \in SceneIds : ModelObject(n) \in sceneChildren[s]

\* C17: once every load started by init and modelPathstate calls has
\* completed, with no allDestroyed, the model reference and the only model
\* attached to the scene are those of the load started last.
C17_LastStartedLoadWins ==
    AllLoadsDelivered
        => /\ model = nLoads
           /\ AttachedModels = {ModelObject(nLoads)}

\* C18: whenever the mixer is defined, the model reference is defined and is
\* the model the mixer was created for.
C18_MixerBoundToCurrentModel ==
    mixer.root # Undefined => model # Undefined /\ mixer.root = model

\* C18 witness: a second load completion has replaced the model reference and
\* the mixer of the first.
C18_Witness ==
    /\ last.step = "loadCallback"
    /\ ModelObject(1) \in UNION {sceneChildren[s] : s \in SceneIds}
    /\ model = 2
    /\ mixer = [root |-> 2, running |-> TRUE]

====
